---- MODULE Spec2Model ----
(***************************************************************************)
(* Score combination strategies of cam/sgnmt/decoding/combination.py.     *)
(*                                                                         *)
(* Python floats are modelled as exact reals.  Two shapes occur:           *)
(*   - probability-domain values (predictor weights): positive rationals   *)
(*     <<n, d>> in lowest terms;                                           *)
(*   - log-domain values (log_prob, scores): finite sums  SUM c_p * ln(p)  *)
(*     over primes p with rational coefficients c_p, held as a function    *)
(*     prime -> coefficient with no zero entry.  Because the logarithms of *)
(*     the primes are linearly independent over the rationals, two such    *)
(*     values are equal as reals exactly when the functions are equal.     *)
(* np.log factors a rational into primes, np.exp multiplies the prime      *)
(* powers back, so log/exp round trips are computed, not assumed.          *)
(* Rounding error of IEEE doubles is not modelled.                         *)
(***************************************************************************)
EXTENDS Integers, Sequences, FiniteSets, TLC

----------------------------------------------------------------------------
(* Bounds of the model *)

MaxT == 2          \* longest breakdown handed to a single call
MaxK == 2          \* largest number of predictors in one step
MaxSteps == 3      \* longest hypothesis of the decoder protocol

----------------------------------------------------------------------------
(* Rational arithmetic (probability domain) *)

Abs(n) == IF n < 0 THEN -n ELSE n

RECURSIVE Gcd(_, _)
Gcd(a, b) == IF b = 0 THEN a ELSE Gcd(b, a % b)

Rat(n, d) ==
    LET g == Gcd(Abs(n), Abs(d))
        s == IF d < 0 THEN -1 ELSE 1
    IN  <<(s * n) \div g, (s * d) \div g>>

RZero == Rat(0, 1)
ROne == Rat(1, 1)
RAdd(x, y) == Rat(x[1] * y[2] + y[1] * x[2], x[2] * y[2])
RNeg(x) == <<-x[1], x[2]>>
RMul(x, y) == Rat(x[1] * y[1], x[2] * y[2])
RLeq(x, y) == x[1] * y[2] <= y[1] * x[2]

RECURSIVE RSum(_)
RSum(xs) == IF xs = <<>> THEN RZero ELSE RAdd(Head(xs), RSum(Tail(xs)))

RECURSIVE Pow(_, _)
Pow(b, e) == IF e = 0 THEN 1 ELSE b * Pow(b, e - 1)

----------------------------------------------------------------------------
(* Log-domain values *)

LZero == <<>>                      \* 0.0: the empty sum
NEG_INF == (0 :> <<-1, 0>>)        \* utils.NEG_INF, float("-inf")

Coef(x, p) == IF p \in DOMAIN x THEN x[p] ELSE RZero

Trim(f) == [p \in {q \in DOMAIN f : f[q] # RZero} |-> f[p]]

\* float addition; -inf + finite = -inf
LAdd(x, y) ==
    IF x = NEG_INF \/ y = NEG_INF THEN NEG_INF
    ELSE Trim([p \in DOMAIN x \cup DOMAIN y |-> RAdd(Coef(x, p), Coef(y, p))])
LScale(r, x) == Trim([p \in DOMAIN x |-> RMul(r, x[p])])
LNeg(x) == [p \in DOMAIN x |-> RNeg(x[p])]
LSub(x, y) == LAdd(x, LNeg(y))

RECURSIVE LSum(_)
LSum(xs) == IF xs = <<>> THEN LZero ELSE LAdd(Head(xs), LSum(Tail(xs)))

\* prime factorisation of n >= 1 by trial division from f upwards
RECURSIVE Factor(_, _)
Factor(n, f) ==
    IF n = 1 THEN <<>>
    ELSE IF f * f > n THEN (n :> ROne)
    ELSE IF n % f = 0 THEN LAdd((f :> ROne), Factor(n \div f, f))
    ELSE Factor(n, f + 1)

\* np.log of a positive rational
Log(r) == LSub(Factor(r[1], 2), Factor(r[2], 2))

RECURSIVE PrimeProduct(_, _, _)
PrimeProduct(x, ps, sign) ==
    IF ps = {} THEN 1
    ELSE LET p == CHOOSE q \in ps : TRUE
             e == sign * x[p][1]
         IN  (IF e > 0 THEN Pow(p, e) ELSE 1) * PrimeProduct(x, ps \ {p}, sign)

\* np.exp of a log-domain value with integer coefficients
Exp(x) == Rat(PrimeProduct(x, DOMAIN x, 1), PrimeProduct(x, DOMAIN x, -1))

LLeq(x, y) == RLeq(Exp(x), Exp(y))

RECURSIVE MaxOf(_)
MaxOf(xs) ==
    IF Len(xs) = 1 THEN xs[1]
    ELSE LET m == MaxOf(Tail(xs)) IN IF LLeq(m, Head(xs)) THEN Head(xs) ELSE m

\* utils.log_sum: max(xs) + log(sum(exp(x - max(xs)))), -inf for no entries
log_sum(xs) ==
    IF xs = <<>> THEN NEG_INF
    ELSE LET m == MaxOf(xs)
         IN  LAdd(m, Log(RSum([i \in 1..Len(xs) |-> Exp(LSub(xs[i], m))])))

----------------------------------------------------------------------------
(* A PredictorScore is <<log_prob, weight>>, a StepBreakdown a sequence of *)
(* them, a score_breakdown a sequence of StepBreakdowns (1-based here).    *)
(* A call yields what it returned or raised together with the breakdown    *)
(* object as the call left it.                                             *)

Returned(v, bd) == [kind |-> "return", val |-> v, score_breakdown |-> bd]
Raised(e, bd) == [kind |-> e, val |-> LZero, score_breakdown |-> bd]

breakdown2score_sum_zero_on_empty(working_score, score_breakdown, full) ==
    Returned(IF score_breakdown = <<>> THEN LZero ELSE working_score, score_breakdown)

breakdown2score_sum(working_score, score_breakdown, full) ==
    Returned(working_score, score_breakdown)

\* Decoder.combi_arithmetic_unnormalized: the sum of the step's log_probs
combi_arithmetic_unnormalized(s) == LSum([k \in 1..Len(s) |-> s[k][1]])

breakdown2score_length_norm_no_division(working_score, score_breakdown, full) ==
    LET score == LSum([t \in 1..Len(score_breakdown) |->
                          combi_arithmetic_unnormalized(score_breakdown[t])])
    IN  IF Len(score_breakdown) = 0
        THEN Raised("ZeroDivisionError", score_breakdown)
        ELSE Returned(score, score_breakdown)

breakdown2score_length_norm(working_score, score_breakdown, full) ==
    LET score == LSum([t \in 1..Len(score_breakdown) |->
                          combi_arithmetic_unnormalized(score_breakdown[t])])
    IN  IF Len(score_breakdown) = 0
        THEN Raised("ZeroDivisionError", score_breakdown)
        ELSE Returned(LScale(Rat(1, Len(score_breakdown)), score), score_breakdown)

----------------------------------------------------------------------------
(* breakdown2score_bayesian *)

short_circuit_on_empty_only(working_score, score_breakdown) ==
    score_breakdown = <<>>

short_circuit(working_score, score_breakdown) ==
    score_breakdown = <<>> \/ working_score = NEG_INF

\* alphas[k] += p for k, (p, w) in enumerate(pos); needs Len(pos) <= Len(alphas)
add_evidence(alphas, pos) ==
    [k \in 1..Len(alphas) |->
        IF k <= Len(pos) THEN LAdd(alphas[k], pos[k][1]) ELSE alphas[k]]

mixture_scores_unnormalized(alphas, alpha_part, pos) ==
    [k \in 1..Len(pos) |-> LAdd(alphas[k], pos[k][1])]

\* scores = [alphas[k] - alpha_part + p for k, (p, w) in enumerate(pos)]
mixture_scores(alphas, alpha_part, pos) ==
    [k \in 1..Len(pos) |-> LAdd(LSub(alphas[k], alpha_part), pos[k][1])]

RECURSIVE bayesian_full_loop(_, _, _, _)
bayesian_full_loop(score_breakdown, t, alphas, acc) ==
    IF t > Len(score_breakdown) THEN Returned(LSum(acc), score_breakdown)
    ELSE IF Len(score_breakdown[t]) > Len(alphas)
    THEN Raised("IndexError", score_breakdown)
    ELSE LET pos == score_breakdown[t]
             alphas2 == add_evidence(alphas, pos)
             alpha_part == log_sum(alphas2)
             scores == mixture_scores(alphas2, alpha_part, pos)
         IN  bayesian_full_loop(score_breakdown, t + 1, alphas2,
                                Append(acc, log_sum(scores)))

bayesian_full_writes_weights(score_breakdown) ==
    LET out == bayesian_full_loop(score_breakdown, 1,
                 [k \in 1..Len(score_breakdown[1]) |-> Log(score_breakdown[1][k][2])], <<>>)
    IN  [out EXCEPT !.score_breakdown =
            [t \in 1..Len(score_breakdown) |->
                [k \in 1..Len(score_breakdown[t]) |-> <<score_breakdown[t][k][1], ROne>>]]]

bayesian_full(score_breakdown) ==
    bayesian_full_loop(score_breakdown, 1,
        [k \in 1..Len(score_breakdown[1]) |-> Log(score_breakdown[1][k][2])], <<>>)

RECURSIVE updated_alphas_through_last(_, _, _)
updated_alphas_through_last(score_breakdown, t, alphas) ==
    IF t > Len(score_breakdown) THEN [ok |-> TRUE, alphas |-> alphas]
    ELSE IF Len(score_breakdown[t]) > Len(alphas) THEN [ok |-> FALSE, alphas |-> alphas]
    ELSE updated_alphas_through_last(score_breakdown, t + 1,
                                     add_evidence(alphas, score_breakdown[t]))

\* for pos in score_breakdown[:-1]: alphas[k] += p
RECURSIVE updated_alphas(_, _, _)
updated_alphas(score_breakdown, t, alphas) ==
    IF t >= Len(score_breakdown) THEN [ok |-> TRUE, alphas |-> alphas]
    ELSE IF Len(score_breakdown[t]) > Len(alphas) THEN [ok |-> FALSE, alphas |-> alphas]
    ELSE updated_alphas(score_breakdown, t + 1, add_evidence(alphas, score_breakdown[t]))

Min(a, b) == IF a <= b THEN a ELSE b

last_score_with_last_weights(priors, last) ==
    LSum([k \in 1..Min(Len(priors), Len(last)) |-> LScale(last[k][2], last[k][1])])

\* sum([w * s[0] for w, s in zip(priors, score_breakdown[-1])])
last_score(priors, last) ==
    LSum([k \in 1..Min(Len(priors), Len(last)) |-> LScale(priors[k], last[k][1])])

updated_breakdown_unnormalized(alphas, alpha_part, last) ==
    [k \in 1..Len(last) |-> <<last[k][1], Exp(alphas[k])>>]

updated_breakdown(alphas, alpha_part, last) ==
    [k \in 1..Len(last) |-> <<last[k][1], Exp(LSub(alphas[k], alpha_part))>>]

write_back_first(score_breakdown, step) ==
    [score_breakdown EXCEPT ![1] = step]

\* score_breakdown[-1] = updated_breakdown
write_back(score_breakdown, step) ==
    [score_breakdown EXCEPT ![Len(score_breakdown)] = step]

single_step_score_accumulating(working_score, pos) ==
    LAdd(working_score, log_sum([k \in 1..Len(pos) |-> LAdd(Log(pos[k][2]), pos[k][1])]))

\* scores = [np.log(w) + p for p, w in score_breakdown[0]]; utils.log_sum(scores)
single_step_score(working_score, pos) ==
    log_sum([k \in 1..Len(pos) |-> LAdd(Log(pos[k][2]), pos[k][1])])

bayesian_incremental(working_score, score_breakdown) ==
    IF Len(score_breakdown) = 1
    THEN Returned(single_step_score(working_score, score_breakdown[1]), score_breakdown)
    ELSE LET priors == [k \in 1..Len(score_breakdown[1]) |-> score_breakdown[1][k][2]]
             last == score_breakdown[Len(score_breakdown)]
             ws == LSub(working_score, last_score(priors, last))
             upd == updated_alphas(score_breakdown, 1,
                                   [k \in 1..Len(priors) |-> Log(priors[k])])
             alphas == upd.alphas
             alpha_part == log_sum(alphas)
         IN  IF ~upd.ok \/ Len(last) > Len(alphas)
             THEN Raised("IndexError", score_breakdown)
             ELSE Returned(LAdd(ws, log_sum(mixture_scores(alphas, alpha_part, last))),
                           write_back(score_breakdown,
                                      updated_breakdown(alphas, alpha_part, last)))

breakdown2score_bayesian(working_score, score_breakdown, full) ==
    IF short_circuit(working_score, score_breakdown)
    THEN Returned(working_score, score_breakdown)
    ELSE IF full THEN bayesian_full(score_breakdown)
    ELSE bayesian_incremental(working_score, score_breakdown)

----------------------------------------------------------------------------
(* breakdown2score_bayesian_loglin *)

loglin_step_unnormalized(sub_acc, alphas) == log_sum(sub_acc)

\* acc.append(utils.log_sum(sub_acc) - utils.log_sum(alphas))
loglin_step(sub_acc, alphas) == LSub(log_sum(sub_acc), log_sum(alphas))

RECURSIVE bayesian_loglin_loop(_, _, _, _)
bayesian_loglin_loop(score_breakdown, t, prev_alphas, acc) ==
    IF t > Len(score_breakdown) THEN Returned(LSum(acc), score_breakdown)
    ELSE IF Len(score_breakdown[t]) > Len(prev_alphas)
    THEN Raised("IndexError", score_breakdown)
    ELSE LET pos == score_breakdown[t]
             alphas == [k \in 1..Len(pos) |-> LAdd(prev_alphas[k], pos[k][1])]
             sub_acc == [k \in 1..Len(pos) |-> LAdd(pos[k][1], alphas[k])]
         IN  bayesian_loglin_loop(score_breakdown, t + 1, alphas,
                                  Append(acc, loglin_step(sub_acc, alphas)))

breakdown2score_bayesian_loglin(working_score, score_breakdown, full) ==
    IF score_breakdown = <<>> THEN Returned(working_score, score_breakdown)
    ELSE bayesian_loglin_loop(score_breakdown, 1,
            [k \in 1..Len(score_breakdown[1]) |-> Log(score_breakdown[1][k][2])], <<>>)

----------------------------------------------------------------------------
(* Inputs of the model: finite log_probs and positive weights *)

LogProbs == {Log(Rat(1, 2)), Log(Rat(1, 4))}

\* log_prob vectors of a step with n predictors: all equal, the first lower,
\* or the last lower
StepLogProbs(n) ==
    {[k \in 1..n |-> Log(Rat(1, 2))],
     [k \in 1..n |-> IF k = 1 THEN Log(Rat(1, 4)) ELSE Log(Rat(1, 2))],
     [k \in 1..n |-> IF k = n THEN Log(Rat(1, 4)) ELSE Log(Rat(1, 2))]}

\* weight vectors of a step with n predictors; the first sums to 1 for n = 2
StepWeights(n) ==
    {[k \in 1..n |-> IF k = 1 THEN Rat(3, 4) ELSE Rat(1, 4)],
     [k \in 1..n |-> Rat(1, 4)]}

MakeStep(ps, ws) == [k \in 1..Len(ps) |-> <<ps[k], ws[k]>>]

Steps ==
    UNION {{MakeStep(ps, ws) : ps \in StepLogProbs(n), ws \in StepWeights(n)} :
           n \in 1..MaxK}

Breakdowns == UNION {[1..t -> Steps] : t \in 0..MaxT}

WorkingScores == {NEG_INF, LZero, Log(Rat(1, 8))}

----------------------------------------------------------------------------
(* State *)

VARIABLES
    pc,               \* "ready" | "done" (one call); "expanded" | "combined" (decoder)
    working_score,    \* the caller's running score
    score_breakdown,  \* the caller's breakdown object
    call,             \* the arguments of the latest call, as they were passed
    ret,              \* what the latest call returned or raised
    priors,           \* decoder: the configured predictor weights
    add_naive,        \* decoder: expansion adds the statically weighted step score
    short_circuited   \* decoder: per step, whether its incremental call got the sentinel

vars == <<pc, working_score, score_breakdown, call, ret, priors, add_naive,
          short_circuited>>

NoCall == [fn |-> "none", full |-> FALSE, working_score |-> LZero, score_breakdown |-> <<>>]
NoRet == [kind |-> "none", val |-> LZero]

Invoke(fn, full, out) ==
    /\ call' = [fn |-> fn, full |-> full, working_score |-> working_score,
                score_breakdown |-> score_breakdown]
    /\ ret' = [kind |-> out.kind, val |-> out.val]
    /\ score_breakdown' = out.score_breakdown

----------------------------------------------------------------------------
(* Spec: one call of a strategy on an arbitrary breakdown *)

Init ==
    /\ pc = "ready"
    /\ working_score \in WorkingScores
    /\ score_breakdown \in Breakdowns
    /\ call = NoCall
    /\ ret = NoRet
    /\ priors = <<>>
    /\ add_naive = FALSE
    /\ short_circuited = <<>>

Finish == pc' = "done" /\ UNCHANGED <<working_score, priors, add_naive, short_circuited>>

CallSum ==
    /\ pc = "ready"
    /\ \E full \in BOOLEAN :
          Invoke("sum", full, breakdown2score_sum(working_score, score_breakdown, full))
    /\ Finish

CallLengthNorm ==
    /\ pc = "ready"
    /\ \E full \in BOOLEAN :
          Invoke("length_norm", full,
                 breakdown2score_length_norm(working_score, score_breakdown, full))
    /\ Finish

CallBayesian ==
    /\ pc = "ready"
    /\ \E full \in BOOLEAN :
          Invoke("bayesian", full,
                 breakdown2score_bayesian(working_score, score_breakdown, full))
    /\ Finish

CallBayesianLoglin ==
    /\ pc = "ready"
    /\ \E full \in BOOLEAN :
          Invoke("bayesian_loglin", full,
                 breakdown2score_bayesian_loglin(working_score, score_breakdown, full))
    /\ Finish

Next == CallSum \/ CallLengthNorm \/ CallBayesian \/ CallBayesianLoglin

Spec == Init /\ [][Next]_vars

----------------------------------------------------------------------------
(* SpecDecoder: one hypothesis of the decoder.  The history starts empty;  *)
(* every expansion appends a step carrying the configured weights and is   *)
(* followed by one incremental Bayesian call whose result the decoder      *)
(* keeps as the hypothesis score, on the same breakdown object.  A         *)
(* predictor may rule a continuation out (log_prob -inf); this is offered  *)
(* where the decoder adds the weighted step score, so that the running     *)
(* score becomes the sentinel before the engine sees the step.             *)

PriorVectors == UNION {StepWeights(n) : n \in 1..MaxK}

\* the log_probs of a step whose first predictor rules the continuation out
RuledOut(n) == [k \in 1..n |-> IF k = 1 THEN NEG_INF ELSE Log(Rat(1, 2))]

StepChoices ==
    [1..Len(priors) -> LogProbs]
        \cup (IF add_naive THEN {RuledOut(Len(priors))} ELSE {})

InitDecoder ==
    /\ pc = "combined"
    /\ working_score = LZero
    /\ score_breakdown = <<>>
    /\ call = NoCall
    /\ ret = NoRet
    /\ priors \in PriorVectors
    /\ add_naive \in BOOLEAN
    /\ short_circuited = <<>>

Expand ==
    /\ pc = "combined"
    /\ Len(score_breakdown) < MaxSteps
    /\ \E ps \in StepChoices :
          /\ score_breakdown' = Append(score_breakdown, MakeStep(ps, priors))
          /\ working_score' =
                IF add_naive
                THEN LAdd(working_score,
                          LSum([k \in 1..Len(priors) |-> LScale(priors[k], ps[k])]))
                ELSE working_score
    /\ pc' = "expanded"
    /\ UNCHANGED <<call, ret, priors, add_naive, short_circuited>>

Combine ==
    /\ pc = "expanded"
    /\ Invoke("bayesian", FALSE,
              breakdown2score_bayesian(working_score, score_breakdown, FALSE))
    /\ working_score' = ret'.val
    /\ short_circuited' = Append(short_circuited, working_score = NEG_INF)
    /\ pc' = "combined"
    /\ UNCHANGED <<priors, add_naive>>

NextDecoder == Expand \/ Combine

SpecDecoder == InitDecoder /\ [][NextDecoder]_vars

----------------------------------------------------------------------------
(* Vocabulary of the properties *)

Done(fn) == pc = "done" /\ call.fn = fn
Incremental == Done("bayesian") /\ ~call.full
T_in == Len(call.score_breakdown)

\* every step has as many predictors as step 0
ConstantCount(bd) == \A t \in 1..Len(bd) : Len(bd[t]) = Len(bd[1])

LogProbsOf(step) == [k \in 1..Len(step) |-> step[k][1]]
WeightsOf(step) == [k \in 1..Len(step) |-> step[k][2]]

\* the sum of every log_prob of the breakdown
RECURSIVE TotalLogProb(_)
TotalLogProb(bd) ==
    IF bd = <<>> THEN LZero
    ELSE LAdd(LSum(LogProbsOf(Head(bd))), TotalLogProb(Tail(bd)))

\* the decoder's history with the configured weights in every step
PriorHistory ==
    [t \in 1..Len(score_breakdown) |->
        MakeStep(LogProbsOf(score_breakdown[t]), priors)]

----------------------------------------------------------------------------
(* C1 *)

\* C1 (as claimed): after the incremental calls on the prefixes H[:1] .. H[:T],
\* each fed the score the previous one returned, the score equals the one
\* returned by a single full=True call on H.
C1_PrefixConsistency ==
    (pc = "combined" /\ ~add_naive /\ Len(score_breakdown) >= 1)
        => (/\ ret.kind = "return"
            /\ LET full == breakdown2score_bayesian(LZero, PriorHistory, TRUE)
               IN  full.kind = "return" /\ full.val = ret.val)

----------------------------------------------------------------------------
(* C2 *)

\* C2: an incremental Bayesian call keeps the number of steps, every step but
\* the last, and in the last step the number of predictors and every log_prob;
\* only the weights of the last step may differ.
C2_IncrementalFrame ==
    Incremental =>
        /\ Len(score_breakdown) = T_in
        /\ \A t \in 1..(T_in - 1) : score_breakdown[t] = call.score_breakdown[t]
        /\ T_in >= 1 =>
              LogProbsOf(score_breakdown[T_in]) = LogProbsOf(call.score_breakdown[T_in])

C2_Witness ==
    /\ Incremental
    /\ T_in >= 2
    /\ ret.kind = "return"
    /\ WeightsOf(score_breakdown[T_in]) # WeightsOf(call.score_breakdown[T_in])

----------------------------------------------------------------------------
(* C3 *)

\* C3 (as claimed): after an incremental call that does not short-circuit, on a
\* breakdown of any length T >= 1 with a constant predictor count, the weights
\* of the last step sum to 1.
C3_WeightsSumToOne_AnyLength ==
    (/\ Incremental
     /\ ~short_circuit(call.working_score, call.score_breakdown)
     /\ ConstantCount(call.score_breakdown))
        => (/\ ret.kind = "return"
            /\ RSum(WeightsOf(score_breakdown[T_in])) = ROne)

\* C3 (amended): the same for T >= 2, where the call rewrites the weights.
C3_WeightsSumToOne ==
    (/\ Incremental
     /\ ~short_circuit(call.working_score, call.score_breakdown)
     /\ ConstantCount(call.score_breakdown)
     /\ T_in >= 2)
        => (/\ ret.kind = "return"
            /\ RSum(WeightsOf(score_breakdown[T_in])) = ROne)

C3_Witness ==
    /\ Incremental
    /\ call.working_score # NEG_INF
    /\ ConstantCount(call.score_breakdown)
    /\ T_in >= 2
    /\ Len(call.score_breakdown[1]) >= 2
    /\ RSum(WeightsOf(call.score_breakdown[T_in])) # ROne
    /\ RSum(WeightsOf(score_breakdown[T_in])) = ROne

----------------------------------------------------------------------------
(* C4 *)

\* C4 (as claimed): length normalisation of an empty breakdown raises nothing
\* and returns 0.0.
C4_LengthNormEmpty ==
    (Done("length_norm") /\ call.score_breakdown = <<>>)
        => (ret.kind = "return" /\ ret.val = LZero)

----------------------------------------------------------------------------
(* C5 *)

\* C5 (as claimed): a call on a breakdown whose steps differ in their number
\* of predictors ends in a validation error, returns no score and leaves the
\* breakdown as it was.
C5_MismatchRejected ==
    (pc = "done" /\ ~ConstantCount(call.score_breakdown))
        => (ret.kind = "ValidationError" /\ score_breakdown = call.score_breakdown)

----------------------------------------------------------------------------
(* C6 *)

\* C6: breakdown2score_sum returns exactly the working score it was given.
C6_SumIsIdentity ==
    Done("sum") => (ret.kind = "return" /\ ret.val = call.working_score)

C6_Witness ==
    /\ Done("sum")
    /\ call.full
    /\ call.working_score = NEG_INF
    /\ call.score_breakdown = <<>>
    /\ ret.val = NEG_INF

----------------------------------------------------------------------------
(* C7 *)

\* C7: every call other than the incremental Bayesian one leaves the breakdown
\* exactly as it was passed.
C7_OnlyIncrementalMutates ==
    (pc = "done" /\ ~Incremental) => score_breakdown = call.score_breakdown

C7_Witness ==
    /\ Done("bayesian")
    /\ call.full
    /\ T_in >= 2
    /\ ret.kind = "return"
    /\ call.working_score # NEG_INF
    /\ score_breakdown = call.score_breakdown

----------------------------------------------------------------------------
(* C8 *)

\* C8: the incremental Bayesian call on an empty breakdown, or with the
\* sentinel as working score, returns the working score and leaves the
\* breakdown as it was.
C8_ShortCircuit ==
    (Incremental /\ (call.score_breakdown = <<>> \/ call.working_score = NEG_INF))
        => (/\ ret.kind = "return"
            /\ ret.val = call.working_score
            /\ score_breakdown = call.score_breakdown)

C8_Witness ==
    /\ Incremental
    /\ call.working_score = NEG_INF
    /\ T_in >= 2
    /\ ConstantCount(call.score_breakdown)
    /\ ret.val = NEG_INF

----------------------------------------------------------------------------
(* C9 *)

----------------------------------------------------------------------------
(* C10 *)

\* C10: with one predictor in every step the log-linear Bayesian score is the
\* plain sum of that predictor's log_probs.
C10_LoglinSinglePredictor ==
    (/\ Done("bayesian_loglin")
     /\ call.score_breakdown # <<>>
     /\ \A t \in 1..T_in : Len(call.score_breakdown[t]) = 1)
        => (ret.kind = "return" /\ ret.val = TotalLogProb(call.score_breakdown))

C10_Witness ==
    /\ Done("bayesian_loglin")
    /\ T_in >= 2
    /\ \A t \in 1..T_in : Len(call.score_breakdown[t]) = 1
    /\ call.score_breakdown[1][1][2] # ROne
    /\ call.working_score # TotalLogProb(call.score_breakdown)
    /\ ret.val = TotalLogProb(call.score_breakdown)

----------------------------------------------------------------------------
(* Reference values in the probability domain *)

RDiv(x, y) == Rat(x[1] * y[2], x[2] * y[1])

RECURSIVE RProd(_)
RProd(xs) == IF xs = <<>> THEN ROne ELSE RMul(Head(xs), RProd(Tail(xs)))

\* prior_k times the probabilities predictor k gave to steps 1..n of bd
Evidence(prs, bd, n, k) == RMul(prs[k], RProd([s \in 1..n |-> Exp(bd[s][k][1])]))

\* the posterior mixture weights after the evidence of steps 1..n
Posterior(prs, bd, n) ==
    LET total == RSum([j \in 1..Len(prs) |-> Evidence(prs, bd, n, j)])
    IN  [k \in 1..Len(prs) |-> RDiv(Evidence(prs, bd, n, k), total)]

\* log of the mixture probability of step t under the weights ws
MixtureLogProb(ws, step) ==
    Log(RSum([k \in 1..Len(step) |-> RMul(ws[k], Exp(step[k][1]))]))

FiniteThrough(bd, n) ==
    \A s \in 1..n : \A k \in 1..Len(bd[s]) : bd[s][k][1] # NEG_INF

----------------------------------------------------------------------------
(* C11 *)

C11_StepZeroKeepsPriors ==
    Len(score_breakdown) >= 1 => WeightsOf(score_breakdown[1]) = priors

\* a step with a later step keeps its weights
C11_Frozen ==
    \A t \in 1..(Len(score_breakdown) - 1) :
        /\ t <= Len(score_breakdown')
        /\ WeightsOf(score_breakdown'[t]) = WeightsOf(score_breakdown[t])

\* C11 (as claimed, its state part): in every state of the decoder protocol
\* step 0 carries the priors and every later step on which an incremental call
\* has run carries the posterior of the priors and the log_probs before it.
C11_PosteriorAfterEveryCall ==
    /\ C11_StepZeroKeepsPriors
    /\ \A i \in 2..Len(short_circuited) :
          FiniteThrough(score_breakdown, i - 1) =>
              WeightsOf(score_breakdown[i]) = Posterior(priors, score_breakdown, i - 1)

\* C11 (amended): in every state of the decoder protocol step 0 carries the
\* priors; every later step on which an incremental call has run with a
\* working score other than the sentinel carries the posterior of the priors
\* and the log_probs of the steps before it; and the weights of a step do not
\* change once a later step has been appended.
C11_PosteriorWeights ==
    /\ [](/\ C11_StepZeroKeepsPriors
          /\ \A i \in 2..Len(short_circuited) :
                ~short_circuited[i] =>
                    WeightsOf(score_breakdown[i])
                        = Posterior(priors, score_breakdown, i - 1))
    /\ [][C11_Frozen]_vars

C11_Witness ==
    /\ pc = "combined"
    /\ Len(score_breakdown) = 3
    /\ \A i \in 1..3 : ~short_circuited[i]
    /\ WeightsOf(score_breakdown[2]) # priors
    /\ WeightsOf(score_breakdown[3]) # WeightsOf(score_breakdown[2])
    /\ WeightsOf(score_breakdown[3]) = Posterior(priors, score_breakdown, 2)

----------------------------------------------------------------------------
(* C12 *)

\* C12: an incremental call on T >= 2 steps with a working score w other than
\* the sentinel returns w - sum_k priors[k] * logprob_last[k] + the log of the
\* mixture probability of the last step under the posterior of the steps
\* before it, and writes that posterior into the weights of the last step.
C12_IncrementalScore ==
    (/\ pc = "combined"
     /\ call.fn = "bayesian"
     /\ T_in >= 2
     /\ call.working_score # NEG_INF)
        => LET bd == call.score_breakdown
               prs == WeightsOf(bd[1])
               last == bd[T_in]
               post == Posterior(prs, bd, T_in - 1)
               naive == LSum([k \in 1..Len(prs) |-> LScale(prs[k], last[k][1])])
           IN  /\ ret.kind = "return"
               /\ ret.val = LAdd(LSub(call.working_score, naive),
                                 MixtureLogProb(post, last))
               /\ WeightsOf(score_breakdown[T_in]) = post

C12_Witness ==
    /\ pc = "combined"
    /\ call.fn = "bayesian"
    /\ add_naive
    /\ T_in = 3
    /\ Len(priors) >= 2
    /\ call.working_score # NEG_INF
    /\ ret.val # call.working_score
    /\ WeightsOf(score_breakdown[3]) # priors
    /\ WeightsOf(score_breakdown[3]) # WeightsOf(score_breakdown[2])

----------------------------------------------------------------------------
(* C13 *)

\* C13: an incremental call on exactly one step with a working score other
\* than the sentinel returns the log of the prior-weighted mixture probability
\* of that step, whatever the working score, and leaves the breakdown as it was.
C13_SingleStep ==
    (Incremental /\ T_in = 1 /\ call.working_score # NEG_INF)
        => (/\ ret.kind = "return"
            /\ ret.val = MixtureLogProb(WeightsOf(call.score_breakdown[1]),
                                        call.score_breakdown[1])
            /\ score_breakdown = call.score_breakdown)

C13_Witness ==
    /\ Incremental
    /\ T_in = 1
    /\ Len(call.score_breakdown[1]) >= 2
    /\ call.working_score = Log(Rat(1, 8))
    /\ ret.kind = "return"
    /\ ret.val # call.working_score

----------------------------------------------------------------------------
(* C14 *)

\* the sum over the steps of the log mixture probability of step t under the
\* posterior that includes the evidence of step t
FullReference(bd) ==
    LSum([t \in 1..Len(bd) |->
            MixtureLogProb(Posterior(WeightsOf(bd[1]), bd, t), bd[t])])

\* C14 (as claimed): a full=True call on a non-empty breakdown returns the
\* score recomputed from the breakdown alone, the same for every working
\* score, the sentinel included.
C14_FullIgnoresWorkingScore ==
    (/\ Done("bayesian")
     /\ call.full
     /\ call.score_breakdown # <<>>
     /\ ConstantCount(call.score_breakdown))
        => (/\ ret.kind = "return"
            /\ ret.val = FullReference(call.score_breakdown)
            /\ \A w \in WorkingScores :
                  breakdown2score_bayesian(w, call.score_breakdown, TRUE).val = ret.val)

----------------------------------------------------------------------------
(* C15 *)

RECURSIVE TailVariants(_)
TailVariants(steps) ==
    IF steps = <<>> THEN {<<>>}
    ELSE {<<MakeStep(LogProbsOf(Head(steps)), w)>> \o rest :
            w \in StepWeights(Len(Head(steps))), rest \in TailVariants(Tail(steps))}

\* the breakdowns with the log_probs and the step-0 weights of bd
WeightVariants(bd) ==
    IF bd = <<>> THEN {<<>>}
    ELSE {<<bd[1]>> \o rest : rest \in TailVariants(Tail(bd))}

Strategy(fn, ws, bd, full) ==
    IF fn = "bayesian" THEN breakdown2score_bayesian(ws, bd, full)
    ELSE breakdown2score_bayesian_loglin(ws, bd, full)

WroteWeights ==
    Incremental /\ T_in >= 2 /\ call.working_score # NEG_INF /\ ret.kind = "return"

====
